---------------------------- MODULE Spec2Model ----------------------------
(***************************************************************************)
(* CareerCompass: semantic matching and gap scoring engine.                *)
(*                                                                         *)
(*   core/semantic_matcher.py  SemanticMatcher (embedding model singleton, *)
(*                             find_best_match)                            *)
(*   core/gap_analyzer.py      SkillGapAnalyzer.analyze_gaps               *)
(*   core/job_matcher.py       IntelligentJobMatcher                       *)
(*   config.py                 MATCHING_WEIGHTS, MATCH_THRESHOLDS          *)
(*                                                                         *)
(* Strings are sequences of one-character strings, so that lower() and the *)
(* substring test "a in b" are computed.  An embedding is an integer       *)
(* vector; every similarity is a cosine computed from two embeddings and   *)
(* is held exactly, in units of 1/ScoreScale.                              *)
(***************************************************************************)
EXTENDS Integers, Sequences, FiniteSets, TLC

VARIABLES
    emb,            \* the loaded model: text -> embedding vector (model.encode)
    cat_embs,       \* SemanticMatcher.cat_embs: the embedded category anchors
    encode_calls,   \* number of model.encode invocations made so far
    fbm,            \* the last find_best_match call: arguments and return value
    match_results,  \* analyze_gaps: its argument, one missing_required list per match
    gap_pc,         \* analyze_gaps: "idle", "clustering" or "done"
    pending,        \* analyze_gaps: the items of raw_counts.most_common() not yet folded
    clustered_gaps, \* analyze_gaps: the dict label -> frequency, in insertion order
    canonical_map,  \* analyze_gaps: the dict raw skill -> label, in insertion order
    gap_report,     \* analyze_gaps: the returned dict
    skill_call,     \* the last calculate_skill_match call: arguments and result
    exp_call,       \* the last calculate_experience_match call: arguments and result
    match_call,     \* the last match_with_intelligent_insights call
    instance,       \* SemanticMatcher._instance: 0 for None, else an object
    attrs,          \* object -> the attributes set on it so far
    tpc,            \* thread -> where it is in SemanticMatcher.__new__
    init_counts,    \* how often the model was loaded and the anchors encoded
    returned,       \* thread -> what SemanticMatcher() returned to it
    skill_anchor_embs, \* SemanticMatcher.skill_anchor_embs: the embedded skill anchors
    filter_call,    \* the last batch_filter_skills call: arguments and return value
    classify_call,  \* the last classify_category or batch_classify_categories call
    sim_call        \* the last get_similarity call: arguments and return value

matcher_vars == <<emb, cat_embs, encode_calls>>
gap_vars == <<match_results, gap_pc, pending, clustered_gaps, canonical_map, gap_report>>
job_vars == <<skill_call, exp_call, match_call>>
single_vars == <<instance, attrs, tpc, init_counts, returned>>
filter_vars == <<skill_anchor_embs, filter_call, classify_call, sim_call>>

vars == <<emb, cat_embs, encode_calls, fbm, match_results, gap_pc, pending,
          clustered_gaps, canonical_map, gap_report, skill_call, exp_call,
          match_call, instance, attrs, tpc, init_counts, returned,
          skill_anchor_embs, filter_call, classify_call, sim_call>>

-----------------------------------------------------------------------------
(* Bounds of the model *)

MaxOptions == 2          \* longest options list handed to find_best_match
MaxJobs == 2             \* most job matches handed to analyze_gaps
MaxMissing == 1          \* longest missing_required list of one match

-----------------------------------------------------------------------------
(* Strings *)

UpperCase == <<"A","B","C","D","E","F","G","H","I","J","K","L","M",
               "N","O","P","Q","R","S","T","U","V","W","X","Y","Z">>
LowerCase == <<"a","b","c","d","e","f","g","h","i","j","k","l","m",
               "n","o","p","q","r","s","t","u","v","w","x","y","z">>

\* str.lower() on the upper-case letters
LowerTable ==
    [c \in {UpperCase[i] : i \in DOMAIN UpperCase} |->
        LowerCase[CHOOSE i \in DOMAIN UpperCase : UpperCase[i] = c]]

\* str.lower() on one character
LowerChar(c) == IF c \in DOMAIN LowerTable THEN LowerTable[c] ELSE c

\* str.lower()
ToLower(s) == [i \in 1..Len(s) |-> LowerChar(s[i])]

\* Python's  a in b  on strings: a occurs in b as a contiguous substring
IsSubstring(a, b) ==
    \E i \in 0..(Len(b) - Len(a)) : SubSeq(b, i + 1, i + Len(a)) = a

\* Seq(S) restricted to length <= n
SeqsUpTo(S, n) == UNION {[1..k -> S] : k \in 0..n}

\* Python's None where a string is expected; no string equals it, since
\* every string is a sequence of one-character strings
None == <<"<None>">>

\* Python truthiness of an Optional[str]: None and "" are both falsy
Truthy(x) == x # None /\ x # <<>>

-----------------------------------------------------------------------------
(* Embeddings and cosine similarity *)

\* similarities are exact rationals with this denominator: the squared norm
\* of the embedding vectors below
ScoreScale == 2500

\* p hundredths as a score: Pct(82) is 0.82
Pct(p) == p * (ScoreScale \div 100)

Dot(u, v) == u[1] * v[1] + u[2] * v[2] + u[3] * v[3] + u[4] * v[4]

Abs(x) == IF x < 0 THEN -x ELSE x

\* Vectors an embedding model may assign to a text.  All have norm 50, and
\* their pairwise cosines are 1.0, 0.98, 0.82, 0.80, 0.6472, 0.62 and 0.10.
VecA == <<50, 0, 0, 0>>
VecB == <<41, 27, 9, 3>>
VecC == <<5, 45, 21, 3>>
VecD == <<40, 30, 0, 0>>

EmbVectors == {VecA, VecB, VecC, VecD}

\* a fifth direction, used by the category anchors only
VecE == <<0, 0, 30, 40>>

\* two more directions of norm 50, with cosine 0.80 and 0 to VecA, and a
\* vector of norm 5: model.encode does not promise unit length
VecF == <<40, 0, 30, 0>>
VecG == <<0, 0, 40, 30>>
VecH == <<3, 4, 0, 0>>

AllVectors == EmbVectors \cup {VecE, VecF, VecG, VecH}

\* the Euclidean norm of each vector, sought below its 1-norm (every vector
\* used has an integer norm)
VecNorm ==
    [u \in AllVectors |->
        CHOOSE r \in 0..(Abs(u[1]) + Abs(u[2]) + Abs(u[3]) + Abs(u[4])) :
            r * r = Dot(u, u)]

Norm(u) == VecNorm[u]

\* util.pytorch_cos_sim on two vectors: dot / (|u| |v|), in 1/ScoreScale
CosSim(u, v) == (Dot(u, v) * ScoreScale) \div (Norm(u) * Norm(v))

\* model.encode(text): the model is a deterministic function of the text
Encode(e, text) == e[text]

\* util.pytorch_cos_sim(query_emb, option_embs)[0]
ScoreRow(e, query, options) ==
    [i \in 1..Len(options) |-> CosSim(Encode(e, query), Encode(e, options[i]))]

\* torch.argmax over a non-empty row: the index of the first maximal value
ArgMax(scores) ==
    CHOOSE i \in 1..Len(scores) :
        /\ \A j \in 1..Len(scores) : scores[j] <= scores[i]
        /\ \A j \in 1..(i - 1) : scores[j] < scores[i]

-----------------------------------------------------------------------------
(* SemanticMatcher.find_best_match *)

\* the default threshold of find_best_match, 0.65
DefaultMatchThreshold == Pct(65)
\* the threshold analyze_gaps passes, 0.85
ClusterThreshold == Pct(85)

\* a plausible slip: the comparison against the threshold reversed
FindBestMatchReversed(e, query, options, threshold) ==
    IF options = <<>> THEN <<None, 0>>
    ELSE LET scores == ScoreRow(e, query, options)
             best_idx == ArgMax(scores)
             best_score == scores[best_idx]
         IN  IF best_score <= threshold
             THEN <<options[best_idx], best_score>>
             ELSE <<None, 0>>

\* a plausible slip: the last option is returned in place of the best one
FindBestMatchLast(e, query, options, threshold) ==
    IF options = <<>> THEN <<None, 0>>
    ELSE LET scores == ScoreRow(e, query, options)
             best_idx == Len(options)
             best_score == scores[best_idx]
         IN  IF best_score >= threshold
             THEN <<options[best_idx], best_score>>
             ELSE <<None, 0>>

\* the value find_best_match returns: (option or None, score)
FindBestMatch(e, query, options, threshold) ==
    IF options = <<>> THEN <<None, 0>>
    ELSE LET scores == ScoreRow(e, query, options)
             best_idx == ArgMax(scores)
             best_score == scores[best_idx]
         IN  IF best_score >= threshold
             THEN <<options[best_idx], best_score>>
             ELSE <<None, 0>>

\* a plausible slip: the texts are encoded before the empty-list test
FindBestMatchEncodesEager(options) == 2

\* model.encode invocations find_best_match makes: none on the empty-list
\* path, otherwise one for the query and one for the option batch
FindBestMatchEncodes(options) == IF options = <<>> THEN 0 ELSE 2

-----------------------------------------------------------------------------
(* Vocabulary of the find_best_match specification *)

K8s == <<"K","8","s">>
Kubernetes == <<"K","u","b","e","r","n","e","t","e","s">>
Java == <<"J","a","v","a">>

MatchVocab == {K8s, Kubernetes, Java}

\* thresholds outside [0, 1]: a float the signature accepts (line 80)
MisconfiguredThresholds == {Pct(-10), Pct(150)}

\* thresholds callers pass
MatchThresholds == {DefaultMatchThreshold, ClusterThreshold} \cup MisconfiguredThresholds

NoCall == [called |-> FALSE]

-----------------------------------------------------------------------------
(* Specification Spec: one find_best_match call *)

\* the category anchors as an embedding model may place them
CategoryAnchors == <<VecA, VecB, VecC, VecD, VecE>>

NumThreads == 2          \* threads that construct a SemanticMatcher

Threads == 1..NumThreads

\* the attributes __new__ sets on the instance
InstanceAttrs == {"model", "skill_anchor_embs", "cat_keys", "cat_embs"}

NoReturn == [obj |-> 0, attrs |-> {}]

\* the singleton as one completed construction leaves it: object 1 with
\* every attribute set, and no thread inside __new__
SingletonBuilt ==
    /\ instance = 1
    /\ attrs = [o \in Threads |-> IF o = 1 THEN InstanceAttrs ELSE {}]
    /\ tpc = [t \in Threads |-> "done"]
    /\ init_counts = [loads |-> 1, skill_anchor_encodes |-> 1, cat_encodes |-> 1]
    /\ returned = [t \in Threads |-> NoReturn]

\* no analyze_gaps call has been made
GapIdle ==
    /\ match_results = <<>>
    /\ gap_pc = "idle"
    /\ pending = <<>>
    /\ clustered_gaps = <<>>
    /\ canonical_map = <<>>
    /\ gap_report = NoCall

\* no IntelligentJobMatcher method has been called
JobIdle ==
    /\ skill_call = NoCall
    /\ exp_call = NoCall
    /\ match_call = NoCall

NumAnchors == 2          \* phrases in the technical-skill anchor list

\* vectors an embedding model may assign to an anchor phrase
AnchorVectors == {VecA, VecE}

\* the technical-skill anchors as one construction embedded them
SkillAnchors == [i \in 1..NumAnchors |-> IF i = 1 THEN VecE ELSE VecA]

\* no batch_filter_skills call has been made
FilterIdle ==
    /\ skill_anchor_embs = SkillAnchors
    /\ filter_call = NoCall
    /\ classify_call = NoCall
    /\ sim_call = NoCall

Init ==
    /\ emb \in [MatchVocab -> EmbVectors]
    /\ cat_embs = CategoryAnchors
    /\ encode_calls = 0
    /\ fbm = NoCall
    /\ GapIdle
    /\ JobIdle
    /\ FilterIdle
    /\ SingletonBuilt

CallFindBestMatch ==
    /\ ~fbm.called
    /\ \E query \in MatchVocab, options \in SeqsUpTo(MatchVocab, MaxOptions),
          threshold \in MatchThresholds :
           /\ fbm' = [called |-> TRUE, query |-> query, options |-> options,
                      threshold |-> threshold,
                      result |-> FindBestMatch(emb, query, options, threshold),
                      encodes |-> FindBestMatchEncodes(options)]
           /\ encode_calls' = encode_calls + FindBestMatchEncodes(options)
           /\ UNCHANGED <<single_vars, filter_vars, emb, cat_embs, gap_vars, job_vars>>

Next == CallFindBestMatch

Spec == Init /\ [][Next]_vars

-----------------------------------------------------------------------------
(* Properties of find_best_match, under Spec *)

\* the largest element of a non-empty set of scores
MaxOf(S) == CHOOSE m \in S : \A x \in S : x <= m

\* the similarity of the query of the last call to one of its options
QuerySim(option) == CosSim(emb[fbm.query], emb[option])

OptionSet == {fbm.options[i] : i \in 1..Len(fbm.options)}

\* the embedding space of Scenario A: similarity(K8s, Kubernetes) = 0.82 and
\* similarity(K8s, Java) = 0.10
ScenarioA ==
    /\ fbm.called
    /\ emb[K8s] = VecA /\ emb[Kubernetes] = VecB /\ emb[Java] = VecC
    /\ fbm.query = K8s
    /\ fbm.options = <<Kubernetes, Java>>
    /\ fbm.threshold = Pct(65)

\* C2: for non-empty options find_best_match returns (o, s) with s the
\* maximum similarity of the query over the options and o an option that
\* attains it, whenever that maximum is >= threshold, and (None, 0)
\* otherwise; in Scenario A it returns (Kubernetes, 0.82).
C2_BestMatchIsMaximum ==
    /\ (fbm.called /\ fbm.options # <<>>) =>
          LET best == MaxOf({QuerySim(o) : o \in OptionSet})
          IN  IF best >= fbm.threshold
              THEN /\ fbm.result[2] = best
                   /\ fbm.result[1] \in OptionSet
                   /\ QuerySim(fbm.result[1]) = best
              ELSE fbm.result = <<None, 0>>
    /\ ScenarioA => fbm.result = <<Kubernetes, Pct(82)>>

C2_Witness == ScenarioA /\ fbm.result[1] = Kubernetes

\* C3: threshold monotonicity.  If the last call matched at its threshold
\* t2, the same query and options match (never None) at every lower
\* threshold t1.
C3_ThresholdMonotone ==
    (fbm.called /\ fbm.result[1] # None) =>
        \A t1 \in MatchThresholds :
            t1 < fbm.threshold =>
                FindBestMatch(emb, fbm.query, fbm.options, t1)[1] # None

C3_Witness ==
    /\ fbm.called
    /\ fbm.result[1] # None
    /\ fbm.threshold = ClusterThreshold
    /\ fbm.result[2] < ScoreScale
    /\ \E t1 \in MatchThresholds : t1 < fbm.threshold

\* C4: with an empty options list find_best_match returns (None, 0.0) and
\* makes no encode call, for every query and threshold.
C4_EmptyOptionsShortCircuit ==
    (fbm.called /\ fbm.options = <<>>) =>
        /\ fbm.result = <<None, 0>>
        /\ fbm.encodes = 0

C4_Witness == fbm.called /\ fbm.options = <<>> /\ fbm.threshold = ClusterThreshold

-----------------------------------------------------------------------------
(* Python containers *)

Range(f) == {f[i] : i \in DOMAIN f}

Front(list) == SubSeq(list, 1, Len(list) - 1)

Last(list) == list[Len(list)]

\* a dict is the sequence of its (key, value) items in insertion order
DictKeys(d) == [i \in 1..Len(d) |-> d[i][1]]

DictHas(d, k) == \E i \in 1..Len(d) : d[i][1] = k

DictGet(d, k) == d[CHOOSE i \in 1..Len(d) : d[i][1] = k][2]

\* d[k] = v: an existing key keeps its place, a new key goes last
DictSet(d, k, v) ==
    IF DictHas(d, k)
    THEN [i \in 1..Len(d) |-> IF d[i][1] = k THEN <<k, v>> ELSE d[i]]
    ELSE Append(d, <<k, v>>)

\* the sum of the values of a dict of numbers
RECURSIVE DictSum(_)
DictSum(d) == IF d = <<>> THEN 0 ELSE DictSum(Front(d)) + Last(d)[2]

\* list.extend over every element of a list of lists
RECURSIVE Flatten(_)
Flatten(lists) ==
    IF lists = <<>> THEN <<>> ELSE Flatten(Front(lists)) \o Last(lists)

\* collections.Counter(list): counts keyed in order of first occurrence
RECURSIVE CounterOf(_)
CounterOf(list) ==
    IF list = <<>> THEN <<>>
    ELSE LET c == CounterOf(Front(list))
             x == Last(list)
         IN  DictSet(c, x, IF DictHas(c, x) THEN DictGet(c, x) + 1 ELSE 1)

\* a plausible slip: the least frequent item first
InsertByCountAscending(sorted, item) ==
    LET k == Cardinality({i \in 1..Len(sorted) : sorted[i][2] <= item[2]})
    IN  SubSeq(sorted, 1, k) \o <<item>> \o SubSeq(sorted, k + 1, Len(sorted))

\* one item placed into a list sorted by descending count, behind every
\* item whose count is at least its own
InsertByCount(sorted, item) ==
    LET k == Cardinality({i \in 1..Len(sorted) : sorted[i][2] >= item[2]})
    IN  SubSeq(sorted, 1, k) \o <<item>> \o SubSeq(sorted, k + 1, Len(sorted))

\* a plausible slip: the counter is walked in insertion order
MostCommonUnsorted(counter) == counter

\* Counter.most_common(): a stable sort by descending count, so equal
\* counts keep their order of first occurrence
RECURSIVE MostCommon(_)
MostCommon(counter) ==
    IF counter = <<>> THEN <<>>
    ELSE InsertByCount(MostCommon(Front(counter)), Last(counter))

\* round(n / d) for n >= 0, d > 0.  Halves round up; Python rounds a half
\* to even, and no quotient formed within the bounds is a half.
RoundDiv(n, d) == (2 * n + d) \div (2 * d)

-----------------------------------------------------------------------------
(* SemanticMatcher.batch_classify_categories *)

\* cat_keys: the category names in declaration order
CatKeys == <<"Programming", "Data & AI", "Web & UI", "Cloud & DevOps", "Soft Skills">>

\* the index torch.argmax picks in one row of the skill x category matrix
ClassifyIndex(e, cembs, skill) ==
    ArgMax([j \in 1..Len(cembs) |-> CosSim(Encode(e, skill), cembs[j])])

\* a list without its repeated elements
RECURSIVE Distinct(_)
Distinct(list) ==
    IF list = <<>> THEN <<>>
    ELSE LET front == Distinct(Front(list))
         IN  IF Last(list) \in Range(front) THEN front ELSE Append(front, Last(list))

\* a plausible slip: a category lists a skill once however often it came
BatchClassifyCategoriesDistinct(e, cembs, skills) ==
    IF skills = <<>> THEN <<>>
    ELSE [j \in 1..Len(CatKeys) |->
            <<CatKeys[j],
              Distinct(SelectSeq(skills, LAMBDA s : ClassifyIndex(e, cembs, s) = j))>>]

\* the dict category -> skills; {} for an empty batch
BatchClassifyCategories(e, cembs, skills) ==
    IF skills = <<>> THEN <<>>
    ELSE [j \in 1..Len(CatKeys) |->
            <<CatKeys[j],
              SelectSeq(skills, LAMBDA s : ClassifyIndex(e, cembs, s) = j)>>]

\* a plausible slip: the batch is encoded before the emptiness test
BatchClassifyEncodesEager(skills) == 1

\* model.encode invocations batch_classify_categories makes
BatchClassifyEncodes(skills) == IF skills = <<>> THEN 0 ELSE 1

-----------------------------------------------------------------------------
(* SkillGapAnalyzer.analyze_gaps *)

\* a plausible slip: a merged mention replaces the cluster's count
FoldMentionOverwrite(e, clusters, raw_skill, count) ==
    LET existing_clusters == DictKeys(clusters)
        match == FindBestMatch(e, raw_skill, existing_clusters, ClusterThreshold)[1]
    IN  IF Truthy(match)
        THEN DictSet(clusters, match, count)
        ELSE DictSet(clusters, raw_skill, count)

\* a plausible slip: a merged cluster takes the name of the newest mention
FoldMentionRename(e, clusters, raw_skill, count) ==
    LET existing_clusters == DictKeys(clusters)
        match == FindBestMatch(e, raw_skill, existing_clusters, ClusterThreshold)[1]
    IN  IF Truthy(match)
        THEN [i \in 1..Len(clusters) |->
                 IF clusters[i][1] = match
                 THEN <<raw_skill, clusters[i][2] + count>>
                 ELSE clusters[i]]
        ELSE DictSet(clusters, raw_skill, count)

\* one iteration of the clustering loop on clustered_gaps
FoldMention(e, clusters, raw_skill, count) ==
    LET existing_clusters == DictKeys(clusters)
        match == FindBestMatch(e, raw_skill, existing_clusters, ClusterThreshold)[1]
    IN  IF Truthy(match)
        THEN DictSet(clusters, match, DictGet(clusters, match) + count)
        ELSE DictSet(clusters, raw_skill, count)

\* a plausible slip: the call leaves the threshold at its default
MapMentionDefaultThreshold(e, clusters, cmap, raw_skill) ==
    LET match == FindBestMatch(e, raw_skill, DictKeys(clusters), DefaultMatchThreshold)[1]
    IN  IF Truthy(match)
        THEN DictSet(cmap, raw_skill, match)
        ELSE DictSet(cmap, raw_skill, raw_skill)

\* the same iteration on canonical_map
MapMention(e, clusters, cmap, raw_skill) ==
    LET match == FindBestMatch(e, raw_skill, DictKeys(clusters), ClusterThreshold)[1]
    IN  IF Truthy(match)
        THEN DictSet(cmap, raw_skill, match)
        ELSE DictSet(cmap, raw_skill, raw_skill)

\* domain_weights.get(category, 1.0), in tenths
DomainWeight(category) ==
    CASE category = "Programming" -> 15
      [] category = "Data & AI" -> 14
      [] category = "Cloud & DevOps" -> 13
      [] category = "Web & UI" -> 12
      [] category = "Soft Skills" -> 8
      [] category = "Unknown" -> 10
      [] OTHER -> 10

\* skill_to_cat.get(skill, 'General'): the dict is filled category by
\* category, so the last category listing the skill stands
SkillCategory(categorized, skill) ==
    LET holders == {j \in 1..Len(categorized) :
                       \E i \in 1..Len(categorized[j][2]) : categorized[j][2][i] = skill}
    IN  IF holders = {} THEN "General"
        ELSE categorized[CHOOSE j \in holders : \A h \in holders : h <= j][1]

\* market penetration above which a gap is critical: 40 percent, in tenths
CriticalPenetration == 400
\* severity score from which a gap is critical: 2.5, in hundredths
CriticalSeverity == 250

\* one entry of scored_gaps; market_penetration in tenths of a percent
\* (round(.., 1)), severity_score in hundredths (round(.., 2))
ScoredGap(categorized, skill, frequency, total_jobs) ==
    LET category == SkillCategory(categorized, skill)
    IN  [skill |-> skill,
         category |-> category,
         frequency |-> frequency,
         market_penetration |-> RoundDiv(frequency * 1000, total_jobs),
         severity_score |-> frequency * DomainWeight(category) * 10]

\* one gap placed into a list sorted by descending severity, behind every
\* gap at least as severe
InsertBySeverity(sorted, gap) ==
    LET k == Cardinality({i \in 1..Len(sorted) :
                             sorted[i].severity_score >= gap.severity_score})
    IN  SubSeq(sorted, 1, k) \o <<gap>> \o SubSeq(sorted, k + 1, Len(sorted))

\* a plausible slip: the gaps are grouped in cluster order, unsorted
SortBySeverityOmitted(gaps) == gaps

\* scored_gaps.sort(key=severity_score, reverse=True): stable
RECURSIVE SortBySeverity(_)
SortBySeverity(gaps) ==
    IF gaps = <<>> THEN <<>>
    ELSE InsertBySeverity(SortBySeverity(Front(gaps)), Last(gaps))

PriorityLabel(gap) ==
    IF gap.market_penetration > CriticalPenetration
       \/ gap.severity_score >= CriticalSeverity
    THEN "Critical"
    ELSE IF gap.frequency > 1 THEN "High" ELSE "Nice-to-Have"

Labelled(gap) ==
    [skill |-> gap.skill, category |-> gap.category, frequency |-> gap.frequency,
     market_penetration |-> gap.market_penetration,
     severity_score |-> gap.severity_score,
     priority_label |-> PriorityLabel(gap)]

SkillsLabelled(gaps, label) ==
    LET chosen == SelectSeq(gaps, LAMBDA g : g.priority_label = label)
    IN  [i \in 1..Len(chosen) |-> chosen[i].skill]

\* the dict returned for an empty match_results
EmptyReport ==
    [called |-> TRUE, critical_gaps |-> <<>>, medium_priority_gaps |-> <<>>,
     all_gaps |-> <<>>]

\* steps 2 to 4 and the returned dict
GapReport(e, cembs, clusters, total_jobs) ==
    LET unique_gaps == DictKeys(clusters)
        categorized_gaps == BatchClassifyCategories(e, cembs, unique_gaps)
        scored == [i \in 1..Len(clusters) |->
                     ScoredGap(categorized_gaps, clusters[i][1], clusters[i][2],
                               total_jobs)]
        sorted == SortBySeverity(scored)
        scored_gaps == [i \in 1..Len(sorted) |-> Labelled(sorted[i])]
    IN  [called |-> TRUE,
         critical_gaps |-> SkillsLabelled(scored_gaps, "Critical"),
         medium_priority_gaps |-> SkillsLabelled(scored_gaps, "High"),
         low_priority_gaps |-> SkillsLabelled(scored_gaps, "Nice-to-Have"),
         detailed_analysis |-> scored_gaps,
         domain_breakdown |-> [j \in 1..Len(categorized_gaps) |->
                                 <<categorized_gaps[j][1],
                                   Len(categorized_gaps[j][2])>>]]

-----------------------------------------------------------------------------
(* Specification SpecGap: one analyze_gaps call *)

AWS == <<"A","W","S">>
AmazonWebServices ==
    <<"A","m","a","z","o","n"," ","W","e","b"," ","S","e","r","v","i","c","e","s">>
Azure == <<"A","z","u","r","e">>

GapVocab == {AWS, AmazonWebServices, Azure}

\* missing_required of one match: the required skills are a set, so no
\* skill is listed twice
MissingLists ==
    {l \in SeqsUpTo(GapVocab, MaxMissing) :
        \A i \in 1..Len(l) : \A j \in 1..Len(l) : l[i] = l[j] => i = j}

\* the raw mentions of Scenario C: AWS 5, Amazon Web Services 2, Azure 3
ScenarioCMatches ==
    << <<AWS, AmazonWebServices, Azure>>, <<AWS, AmazonWebServices, Azure>>,
       <<AWS, Azure>>, <<AWS>>, <<AWS>> >>

\* five matches whose mentions are AWS 5, Amazon Web Services 2, Azure 1
ThreeTierMatches ==
    << <<AWS, AmazonWebServices, Azure>>, <<AWS, AmazonWebServices>>,
       <<AWS>>, <<AWS>>, <<AWS>> >>

GapInputs == SeqsUpTo(MissingLists, MaxJobs) \cup {ScenarioCMatches, ThreeTierMatches}

InitGap ==
    /\ emb \in [GapVocab -> EmbVectors]
    /\ cat_embs = CategoryAnchors
    /\ encode_calls = 0
    /\ fbm = NoCall
    /\ GapIdle
    /\ JobIdle
    /\ FilterIdle
    /\ SingletonBuilt

\* lines 25-38: the early return, or the aggregation of the raw mentions
AnalyzeGapsStart ==
    /\ gap_pc = "idle"
    /\ \E results \in GapInputs :
           /\ match_results' = results
           /\ IF results = <<>>
              THEN /\ gap_pc' = "done"
                   /\ gap_report' = EmptyReport
                   /\ UNCHANGED pending
              ELSE /\ gap_pc' = "clustering"
                   /\ pending' = MostCommon(CounterOf(Flatten(results)))
                   /\ UNCHANGED gap_report
           /\ UNCHANGED <<single_vars, filter_vars, clustered_gaps, canonical_map, matcher_vars, fbm, job_vars>>

\* lines 43-57: one iteration of the clustering loop
ClusterStep ==
    /\ gap_pc = "clustering"
    /\ pending # <<>>
    /\ LET raw_skill == Head(pending)[1]
           count == Head(pending)[2]
       IN  /\ clustered_gaps' = FoldMention(emb, clustered_gaps, raw_skill, count)
           /\ canonical_map' = MapMention(emb, clustered_gaps, canonical_map, raw_skill)
           /\ encode_calls' = encode_calls + FindBestMatchEncodes(DictKeys(clustered_gaps))
    /\ pending' = Tail(pending)
    /\ UNCHANGED <<single_vars, filter_vars, match_results, gap_pc, gap_report, emb, cat_embs, fbm, job_vars>>

\* lines 59-134: categorisation, severity scoring, sorting and grouping
AnalyzeGapsFinish ==
    /\ gap_pc = "clustering"
    /\ pending = <<>>
    /\ gap_report' = GapReport(emb, cat_embs, clustered_gaps, Len(match_results))
    /\ encode_calls' = encode_calls + BatchClassifyEncodes(DictKeys(clustered_gaps))
    /\ gap_pc' = "done"
    /\ UNCHANGED <<single_vars, filter_vars, match_results, pending, clustered_gaps, canonical_map, emb,
                   cat_embs, fbm, job_vars>>

NextGap == AnalyzeGapsStart \/ ClusterStep \/ AnalyzeGapsFinish

SpecGap == InitGap /\ [][NextGap]_vars

-----------------------------------------------------------------------------
(* Properties of analyze_gaps, under SpecGap *)

\* the number of raw mentions collected from all matches
TotalMentions == Len(Flatten(match_results))

\* the mentions folded so far
FoldedMentions == TotalMentions - DictSum(pending)

\* C1: cluster conservation.  After the clustering pass the cluster
\* frequencies sum to the number of raw missing-required mentions of all
\* matches; during the pass they sum to the mentions folded so far.
C1_ClusterConservation ==
    /\ gap_pc = "clustering" => DictSum(clustered_gaps) = FoldedMentions
    /\ (gap_pc = "clustering" /\ pending = <<>>) =>
          DictSum(clustered_gaps) = TotalMentions
    /\ gap_pc = "done" => DictSum(clustered_gaps) = TotalMentions

\* a pass that merged a mention into an existing cluster, and is over
C1_Witness ==
    /\ gap_pc = "done"
    /\ Len(clustered_gaps) >= 1
    /\ Len(clustered_gaps) < Len(canonical_map)
    /\ DictSum(clustered_gaps) = TotalMentions

\* s is an initial segment of t
IsPrefix(s, t) == Len(s) <= Len(t) /\ SubSeq(t, 1, Len(s)) = s

\* C12: within one clustering pass every distinct raw mention is assigned
\* to exactly one cluster, its own new one or an existing one, and the
\* assignment is never changed; a cluster, once created, is never removed,
\* renamed or merged: each iteration keeps the labels in place, adds at
\* most one, and lowers no frequency.
C12_ClustersOnlyGrow ==
    [][(gap_pc = "clustering" /\ pending # <<>> /\ pending' = Tail(pending)) =>
          LET raw_skill == Head(pending)[1]
              count == Head(pending)[2]
              labels == DictKeys(clustered_gaps)
          IN  /\ IsPrefix(labels, DictKeys(clustered_gaps'))
              /\ Len(clustered_gaps') <= Len(clustered_gaps) + 1
              /\ \A k \in Range(labels) :
                     DictGet(clustered_gaps', k) >= DictGet(clustered_gaps, k)
              /\ ~DictHas(canonical_map, raw_skill)
              /\ IsPrefix(canonical_map, canonical_map')
              /\ Len(canonical_map') = Len(canonical_map) + 1
              /\ DictHas(canonical_map', raw_skill)
              /\ DictGet(canonical_map', raw_skill) \in Range(DictKeys(clustered_gaps'))
              /\ DictGet(clustered_gaps', DictGet(canonical_map', raw_skill))
                     = (IF DictHas(clustered_gaps, DictGet(canonical_map', raw_skill))
                          THEN DictGet(clustered_gaps, DictGet(canonical_map', raw_skill))
                          ELSE 0) + count
      ]_vars

\* a finished pass of three distinct mentions, one merged into an existing
\* cluster and one that opened a second cluster
C12_Witness ==
    /\ gap_pc = "done"
    /\ Len(canonical_map) = 3
    /\ Len(clustered_gaps) = 2
    /\ \E i \in 1..Len(canonical_map) : canonical_map[i][1] # canonical_map[i][2]

\* similarity of two raw skills under the loaded model
GapSim(a, b) == CosSim(emb[a], emb[b])

\* Scenario C: the mentions AWS 5, Amazon Web Services 2 and Azure 3, with
\* Amazon Web Services similar to AWS at the merge threshold and Azure
\* below it to both other labels
ScenarioC ==
    /\ match_results = ScenarioCMatches
    /\ GapSim(AmazonWebServices, AWS) >= ClusterThreshold
    /\ GapSim(Azure, AWS) < ClusterThreshold
    /\ GapSim(Azure, AmazonWebServices) < ClusterThreshold

\* C13: in Scenario C, when the clustering loop has consumed every
\* mention there are exactly two clusters, AWS with frequency 7 and Azure
\* with frequency 3.
C13_ScenarioCTwoClusters ==
    (ScenarioC /\ gap_pc \in {"clustering", "done"} /\ pending = <<>>) =>
        /\ Len(clustered_gaps) = 2
        /\ DictHas(clustered_gaps, AWS) /\ DictGet(clustered_gaps, AWS) = 7
        /\ DictHas(clustered_gaps, Azure) /\ DictGet(clustered_gaps, Azure) = 3
        /\ DictGet(canonical_map, AmazonWebServices) = AWS

\* the Scenario C pass, finished, with Azure as close to AWS as 0.82
C13_Witness ==
    /\ ScenarioC
    /\ gap_pc = "done"
    /\ GapSim(Azure, AWS) = Pct(82)
    /\ Len(clustered_gaps) = 2

\* C14: the market penetration of every cluster in the gap report lies
\* between 0 and 100 per cent: no cluster's frequency exceeds the number
\* of job matches analysed.
C14_PenetrationAtMostAll ==
    (gap_pc = "done" /\ match_results # <<>>) =>
        \A i \in 1..Len(gap_report.detailed_analysis) :
            /\ gap_report.detailed_analysis[i].frequency <= Len(match_results)
            /\ gap_report.detailed_analysis[i].market_penetration >= 0
            /\ gap_report.detailed_analysis[i].market_penetration <= 1000

-----------------------------------------------------------------------------
(* IntelligentJobMatcher.calculate_skill_match *)

\* the keys of resume_skill_dict: the lowered skill names in order of first
\* occurrence (the proficiency and category stored under each key enter no
\* score and are left out)
RECURSIVE ResumeSkillDict(_)
ResumeSkillDict(skills) ==
    IF skills = <<>> THEN <<>>
    ELSE LET keys == ResumeSkillDict(Front(skills))
             k == ToLower(Last(skills))
         IN  IF k \in Range(keys) THEN keys ELSE Append(keys, k)

LowerAll(skills) == [i \in 1..Len(skills) |-> ToLower(skills[i])]

\* lines 98-105: some resume skill contains the skill or is contained in it
SkillMatched(skill, resume_keys) ==
    \E i \in 1..Len(resume_keys) :
        IsSubstring(skill, resume_keys[i]) \/ IsSubstring(resume_keys[i], skill)

\* a coverage is the fraction <<numerator, denominator>>
\* line 124: matched / max(len(required), 1), or 1.0 without requirements
RequiredCoverage(matched, required) ==
    IF required # <<>>
    THEN <<Len(matched), IF Len(required) > 1 THEN Len(required) ELSE 1>>
    ELSE <<1, 1>>

\* line 125: matched / max(len(preferred), 1), or 0.5 without preferences
PreferredCoverage(matched, preferred) ==
    IF preferred # <<>>
    THEN <<Len(matched), IF Len(preferred) > 1 THEN Len(preferred) ELSE 1>>
    ELSE <<1, 2>>

\* round(coverage * 100, 1), in tenths of a percent
CoveragePercent(cov) == RoundDiv(1000 * cov[1], cov[2])

\* a plausible slip: the preferred coverage added as a bonus on top of the
\* full required coverage
SkillScoreBonus(rc, pc) ==
    RoundDiv(1000 * rc[1] * pc[2] + 200 * pc[1] * rc[2], rc[2] * pc[2])

\* round(required_coverage * 0.8 + preferred_coverage * 0.2, 3), in
\* thousandths
SkillScore(rc, pc) ==
    RoundDiv(800 * rc[1] * pc[2] + 200 * pc[1] * rc[2], rc[2] * pc[2])

\* a plausible slip: the matched share graded in place of the missing one
GapSeverityOfCoverage(missing, total) ==
    IF total = <<>> THEN "None"
    ELSE LET matched == Len(total) - Len(missing)
         IN  IF matched = 0 THEN "None - Perfect match!"
             ELSE IF 5 * matched <= Len(total) THEN "Minor - Easily addressable"
             ELSE IF 5 * matched <= 2 * Len(total) THEN "Moderate - Requires preparation"
             ELSE IF 5 * matched <= 3 * Len(total) THEN "Significant - Needs work"
             ELSE "Critical - May not be suitable"

\* a plausible slip: the last two cut-offs merged into one label
GapSeverityCoarse(missing, total) ==
    IF total = <<>> THEN "None"
    ELSE IF Len(missing) = 0 THEN "None - Perfect match!"
    ELSE IF 5 * Len(missing) <= Len(total) THEN "Minor - Easily addressable"
    ELSE IF 5 * Len(missing) <= 2 * Len(total) THEN "Moderate - Requires preparation"
    ELSE "Significant - Needs work"

\* _calculate_gap_severity: gap_ratio = len(missing) / len(total) against
\* the cut-offs 0, 0.2, 0.4 and 0.6
GapSeverity(missing, total) ==
    IF total = <<>> THEN "None"
    ELSE IF Len(missing) = 0 THEN "None - Perfect match!"
    ELSE IF 5 * Len(missing) <= Len(total) THEN "Minor - Easily addressable"
    ELSE IF 5 * Len(missing) <= 2 * Len(total) THEN "Moderate - Requires preparation"
    ELSE IF 5 * Len(missing) <= 3 * Len(total) THEN "Significant - Needs work"
    ELSE "Critical - May not be suitable"

\* the dict calculate_skill_match returns; score in thousandths, coverages
\* in tenths of a percent, matched_required by skill name
CalculateSkillMatch(resume_skills, job_required, job_preferred) ==
    LET resume_keys == ResumeSkillDict(resume_skills)
        required_skills == LowerAll(job_required)
        preferred_skills == LowerAll(job_preferred)
        matched_required ==
            SelectSeq(required_skills, LAMBDA r : SkillMatched(r, resume_keys))
        missing_required ==
            SelectSeq(required_skills, LAMBDA r : ~SkillMatched(r, resume_keys))
        matched_preferred ==
            SelectSeq(preferred_skills, LAMBDA r : SkillMatched(r, resume_keys))
        missing_preferred ==
            SelectSeq(preferred_skills, LAMBDA r : ~SkillMatched(r, resume_keys))
        required_coverage == RequiredCoverage(matched_required, required_skills)
        preferred_coverage == PreferredCoverage(matched_preferred, preferred_skills)
    IN  [score |-> SkillScore(required_coverage, preferred_coverage),
         required_coverage |-> CoveragePercent(required_coverage),
         preferred_coverage |-> CoveragePercent(preferred_coverage),
         matched_required |-> matched_required,
         missing_required |-> missing_required,
         matched_preferred |-> matched_preferred,
         missing_preferred |-> missing_preferred,
         gap_severity |-> GapSeverity(missing_required, required_skills)]

-----------------------------------------------------------------------------
(* Specification SpecSkill: one calculate_skill_match call *)

MaxRequired == 3         \* longest required_skills list of a job
MaxPreferred == 1        \* longest preferred_skills list of a job
MaxResumeSkills == 2     \* most skills of a resume

Python == <<"P","y","t","h","o","n">>
Docker == <<"D","o","c","k","e","r">>
Go == <<"G","o">>
Django == <<"D","j","a","n","g","o">>

JobVocab == {Python, Docker, Go}
ResumeVocab == {Python, Kubernetes, Django}

\* an embedding space in which docker and kubernetes are 0.6472 apart
\* (Scenario B), and one in which they are 0.98 apart
SkillEmbApart ==
    [t \in {ToLower(x) : x \in JobVocab \cup ResumeVocab} |->
        CASE t = ToLower(Python) -> VecA
          [] t = ToLower(Docker) -> VecC
          [] t = ToLower(Kubernetes) -> VecB
          [] t = ToLower(Go) -> VecE
          [] OTHER -> VecD]

SkillEmbClose == [SkillEmbApart EXCEPT ![ToLower(Docker)] = VecD]

InitSkill ==
    /\ emb \in {SkillEmbApart, SkillEmbClose}
    /\ cat_embs = CategoryAnchors
    /\ encode_calls = 0
    /\ fbm = NoCall
    /\ GapIdle
    /\ JobIdle
    /\ FilterIdle
    /\ SingletonBuilt

CallCalculateSkillMatch ==
    /\ ~skill_call.called
    /\ \E resume_skills \in SeqsUpTo(ResumeVocab, MaxResumeSkills),
          required \in SeqsUpTo(JobVocab, MaxRequired),
          preferred \in SeqsUpTo(JobVocab, MaxPreferred) :
           /\ skill_call' = [called |-> TRUE, resume_skills |-> resume_skills,
                             required_skills |-> required,
                             preferred_skills |-> preferred,
                             result |-> CalculateSkillMatch(resume_skills, required,
                                                            preferred)]
           /\ UNCHANGED <<single_vars, filter_vars, matcher_vars, fbm, gap_vars, exp_call, match_call>>

NextSkill == CallCalculateSkillMatch

SpecSkill == InitSkill /\ [][NextSkill]_vars

-----------------------------------------------------------------------------
(* Properties of calculate_skill_match, under SpecSkill *)

\* the moderate threshold of the semantic fallback, 0.70
ModerateThreshold == Pct(70)

\* the dict carries a flag marking the match as low-confidence
FlaggedLowConfidence(result) == "low_confidence" \in DOMAIN result

\* C5: without required skills the required coverage is 0 and the match is
\* flagged low-confidence; an empty requirement list never scores as 100%.
C5_EmptyRequirementsScoreZero ==
    (skill_call.called /\ skill_call.required_skills = <<>>) =>
        /\ skill_call.result.required_coverage = 0
        /\ FlaggedLowConfidence(skill_call.result)

\* the resume of the last call lists the skill, compared without case
ExactlyListed(skill) ==
    \E i \in 1..Len(skill_call.resume_skills) :
        ToLower(skill_call.resume_skills[i]) = skill

\* the Similarity Matcher finds a resume skill for it at the moderate
\* threshold
SemanticallyListed(skill) ==
    FindBestMatch(emb, skill, LowerAll(skill_call.resume_skills),
                  ModerateThreshold)[1] # None

\* C6: a required skill is counted as matched if and only if some resume
\* skill equals it case-insensitively or, failing that, the Similarity
\* Matcher finds a resume skill for it at the moderate threshold; every
\* other required skill is reported in missing_required.
C6_MatchedIffExactOrSemantic ==
    skill_call.called =>
        \A i \in 1..Len(skill_call.required_skills) :
            LET skill == ToLower(skill_call.required_skills[i])
                counted == ExactlyListed(skill) \/ SemanticallyListed(skill)
            IN  /\ skill \in Range(skill_call.result.matched_required) <=> counted
                /\ skill \in Range(skill_call.result.missing_required) <=> ~counted

\* Scenario B: required [Python, Docker, Go], resume [Python, Kubernetes],
\* docker and kubernetes below the moderate threshold
ScenarioB ==
    /\ skill_call.called
    /\ emb = SkillEmbApart
    /\ skill_call.required_skills = <<Python, Docker, Go>>
    /\ skill_call.resume_skills = <<Python, Kubernetes>>

ScenarioBCoverage ==
    /\ skill_call.result.required_coverage = 333
    /\ skill_call.result.matched_required = <<ToLower(Python)>>
    /\ skill_call.result.missing_required = <<ToLower(Docker), ToLower(Go)>>

\* C7 as stated: Scenario B reports required coverage 1/3 (Python matched;
\* Docker and Go missing) and gap severity Significant.
C7_ScenarioBSignificant ==
    ScenarioB =>
        /\ ScenarioBCoverage
        /\ skill_call.result.gap_severity = "Significant - Needs work"

\* C7 amended: Scenario B reports required coverage 1/3 (Python matched;
\* Docker and Go missing) and gap severity Critical, the missing ratio 2/3
\* lying above the last cut-off 0.6.
C7_ScenarioBCritical ==
    ScenarioB =>
        /\ ScenarioBCoverage
        /\ skill_call.result.gap_severity = "Critical - May not be suitable"

C7_Witness ==
    /\ ScenarioB
    /\ skill_call.result.required_coverage = 333
    /\ skill_call.result.gap_severity = "Critical - May not be suitable"

-----------------------------------------------------------------------------
(* IntelligentJobMatcher.calculate_experience_match *)

\* fractions <<numerator, denominator>> with positive denominators
FracLeq(a, b) == a[1] * b[2] <= b[1] * a[2]

\* lines 164-178: years_score as a fraction.  The float products
\* required_years * 1.5 and required_years * 0.8 compare as 3/2 and 4/5 of
\* the integer required_years.
YearsScore(candidate_years, required_years) ==
    IF required_years = 0 THEN <<9, 10>>
    ELSE IF 2 * candidate_years >= 3 * required_years THEN <<1, 1>>
    ELSE IF candidate_years >= required_years THEN <<19, 20>>
    ELSE IF 5 * candidate_years >= 4 * required_years THEN <<3, 4>>
    ELSE IF 10 * candidate_years >= 3 * required_years
         THEN <<candidate_years, required_years>>
         ELSE <<3, 10>>

\* lines 164-178: the analysis text, with the number it formats
YearsAnalysis(candidate_years, required_years) ==
    IF required_years = 0 THEN <<"No specific requirement">>
    ELSE IF 2 * candidate_years >= 3 * required_years
         THEN <<"Significantly exceeds", candidate_years - required_years>>
    ELSE IF candidate_years >= required_years THEN <<"Meets requirement">>
    ELSE IF 5 * candidate_years >= 4 * required_years
         THEN <<"Slightly below", required_years - candidate_years>>
    ELSE <<"Below requirement">>

\* the keys of seniority_matrix, (candidate level, required level)
MatrixLevels == {"junior", "mid", "senior"}

\* seniority_matrix.get((candidate_level, required_level), (0.5,
\* "Uncertain")): the score in hundredths and the analysis
SeniorityMatch(candidate_level, required_level) ==
    LET key == <<candidate_level, required_level>>
    IN  CASE key = <<"junior", "junior">> -> <<100, "Perfect match">>
          [] key = <<"junior", "mid">> -> <<60, "May need growth potential">>
          [] key = <<"junior", "senior">> -> <<20, "Significant gap">>
          [] key = <<"mid", "junior">> -> <<95, "Overqualified">>
          [] key = <<"mid", "mid">> -> <<100, "Perfect match">>
          [] key = <<"mid", "senior">> -> <<70, "Close to required">>
          [] key = <<"senior", "junior">> -> <<90, "Highly overqualified">>
          [] key = <<"senior", "mid">> -> <<95, "Overqualified">>
          [] key = <<"senior", "senior">> -> <<100, "Perfect match">>
          [] OTHER -> <<50, "Uncertain">>

Min(a, b) == IF a <= b THEN a ELSE b

\* round(min(1.0, years_score * 0.6 + seniority_score * 0.4), 3), in
\* thousandths
ExperienceScore(years_score, seniority_score) ==
    Min(1000, RoundDiv(600 * years_score[1] + 4 * seniority_score * years_score[2],
                       years_score[2]))

\* the dict calculate_experience_match returns, with the local years_score
CalculateExperienceMatch(candidate_years, candidate_level, required_years, required_level) ==
    LET years_score == YearsScore(candidate_years, required_years)
        seniority == SeniorityMatch(candidate_level, required_level)
    IN  [score |-> ExperienceScore(years_score, seniority[1]),
         years_analysis |-> YearsAnalysis(candidate_years, required_years),
         seniority_analysis |-> seniority[2],
         candidate_years |-> candidate_years,
         required_years |-> required_years,
         years_score |-> years_score]

-----------------------------------------------------------------------------
(* Specification SpecExp: one calculate_experience_match call *)

MaxYears == 10           \* most years of experience held or required

\* the seniority labels _calculate_experience_robust assigns
AnalyzerLevels ==
    {"Staff/Principal", "Senior", "Mid-Senior", "Mid-Level", "Junior", "Entry-Level"}

\* resume_exp.get('seniority_level', 'mid'): a label of the analyzer, or a
\* level of the matrix (the default among them)
CandidateLevels == AnalyzerLevels \cup MatrixLevels

CallCalculateExperienceMatch ==
    /\ ~exp_call.called
    /\ \E candidate_years \in 0..MaxYears, required_years \in 0..MaxYears,
          candidate_level \in CandidateLevels, required_level \in MatrixLevels :
           /\ exp_call' = [called |-> TRUE, candidate_level |-> candidate_level,
                           required_level |-> required_level,
                           result |-> CalculateExperienceMatch(
                                          candidate_years, candidate_level,
                                          required_years, required_level)]
           /\ UNCHANGED <<single_vars, filter_vars, matcher_vars, fbm, gap_vars, skill_call, match_call>>

NextExp == CallCalculateExperienceMatch

SpecExp == InitSkill /\ [][NextExp]_vars

-----------------------------------------------------------------------------
(* Properties of calculate_experience_match, under SpecExp *)

\* C9: for a fixed positive years-required figure the years component of
\* the experience score is non-decreasing in the candidate's years: no
\* candidate with fewer years gets a higher years score.
C9_YearsScoreMonotone ==
    (exp_call.called /\ exp_call.result.required_years > 0) =>
        \A fewer \in 0..exp_call.result.candidate_years :
            FracLeq(YearsScore(fewer, exp_call.result.required_years),
                    exp_call.result.years_score)

-----------------------------------------------------------------------------
(* IntelligentJobMatcher.match_with_intelligent_insights *)

\* config.MATCHING_WEIGHTS, in hundredths
MATCHING_WEIGHTS ==
    << <<"skills", 50>>, <<"experience", 30>>, <<"education", 10>>,
       <<"industry", 10>> >>

WeightUnit == 100        \* MATCHING_WEIGHTS holds hundredths: 1.0 is 100

\* config.MATCH_THRESHOLDS, in hundredths
MATCH_THRESHOLDS ==
    << <<"excellent", 85>>, <<"strong", 70>>, <<"good", 55>>, <<"fair", 40>> >>

\* a sub-score is in thousandths and a weight in hundredths, so the
\* composite is in units of 1/CompositeUnit
CompositeUnit == 100000

\* the keys of self.weights that lines 229-232 read
AppliedWeights == <<"skills", "experience">>

\* a plausible slip: the experience shortfall weighted in place of the
\* experience score
FinalScoreShortfall(skill_score, exp_score) ==
    skill_score * DictGet(MATCHING_WEIGHTS, AppliedWeights[1])
        + (1000 - exp_score) * DictGet(MATCHING_WEIGHTS, AppliedWeights[2])

\* lines 229-232: final_score
FinalScore(skill_score, exp_score) ==
    skill_score * DictGet(MATCHING_WEIGHTS, AppliedWeights[1])
        + exp_score * DictGet(MATCHING_WEIGHTS, AppliedWeights[2])

\* a threshold of MATCH_THRESHOLDS in composite units
Threshold(tier) == DictGet(MATCH_THRESHOLDS, tier) * (CompositeUnit \div WeightUnit)

\* a plausible slip: the strong and good labels exchanged
MatchQualitySwapped(final_score) ==
    IF final_score >= Threshold("excellent")
      THEN <<"Excellent Match", "URGENT", "Apply immediately - Ideal candidate!">>
    ELSE IF final_score >= Threshold("strong")
      THEN <<"Good Match", "MEDIUM", "Good opportunity">>
    ELSE IF final_score >= Threshold("good")
      THEN <<"Strong Match", "HIGH", "Highly recommended">>
    ELSE IF final_score >= Threshold("fair")
      THEN <<"Fair Match", "LOW", "Consider if interested">>
    ELSE <<"Weak Match", "SKIP", "Not recommended">>

\* lines 235-254: quality, priority and recommendation
MatchQuality(final_score) ==
    IF final_score >= Threshold("excellent")
      THEN <<"Excellent Match", "URGENT", "Apply immediately - Ideal candidate!">>
    ELSE IF final_score >= Threshold("strong")
      THEN <<"Strong Match", "HIGH", "Highly recommended">>
    ELSE IF final_score >= Threshold("good")
      THEN <<"Good Match", "MEDIUM", "Good opportunity">>
    ELSE IF final_score >= Threshold("fair")
      THEN <<"Fair Match", "LOW", "Consider if interested">>
    ELSE <<"Weak Match", "SKIP", "Not recommended">>

\* round(final_score, 3) in thousandths.  final_score is a binary float: a
\* value midway between two thousandths rounds to either neighbour,
\* whichever side the float's representation error falls on.
RoundedOverall(final_score) ==
    LET unit == CompositeUnit \div 1000
    IN  IF 2 * (final_score % unit) = unit
          THEN {final_score \div unit, (final_score \div unit) + 1}
          ELSE {RoundDiv(final_score, unit)}

\* s[:n]
Take(s, n) == SubSeq(s, 1, Min(n, Len(s)))

\* _generate_insights: what each list of the insights holds
GenerateInsights(skill_result) ==
    [strengths_to_highlight |->
         IF skill_result.required_coverage >= 800
           THEN << <<"Strong technical match", skill_result.required_coverage>> >>
           ELSE <<>>,
     talking_points |->
         IF skill_result.matched_required # <<>>
           THEN << <<"Emphasize", Take(skill_result.matched_required, 3)>> >>
           ELSE <<>>,
     gaps_to_address |->
         IF skill_result.missing_required # <<>>
           THEN << <<"Address", Take(skill_result.missing_required, 3)>> >>
           ELSE <<>>,
     cover_letter_tips |-> <<"Highlight relevant projects and quick learning">>]

\* _generate_action_items
GenerateActionItems(skill_result) ==
    (IF skill_result.missing_required # <<>>
       THEN << <<"Learn", Take(skill_result.missing_required, 2)>> >>
       ELSE <<>>)
    \o (IF skill_result.score >= 700
          THEN << <<"Tailor resume to highlight matching skills">> >>
          ELSE <<>>)
    \o << <<"Research company and recent projects">> >>

\* the dict match_with_intelligent_insights returns for a profile and the
\* requirements extract_job_requirements read from the job, given the
\* rounding of the overall score; final_score is the local of that name
MatchWithIntelligentInsights(resume_profile, job_req, overall_score) ==
    LET skill_result == CalculateSkillMatch(resume_profile.skills,
                                            job_req.required_skills,
                                            job_req.preferred_skills)
        exp_result == CalculateExperienceMatch(
                          resume_profile.total_years,
                          resume_profile.seniority_level,
                          job_req.experience_years, job_req.seniority_level)
        final_score == FinalScore(skill_result.score, exp_result.score)
        quality == MatchQuality(final_score)
    IN  [final_score |-> final_score,
         overall_score |-> overall_score,
         match_quality |-> quality[1],
         priority |-> quality[2],
         recommendation |-> quality[3],
         skill_match |-> skill_result,
         experience_match |-> exp_result,
         job_requirements |-> job_req,
         insights |-> GenerateInsights(skill_result),
         action_items |-> GenerateActionItems(skill_result)]

-----------------------------------------------------------------------------
(* Specification SpecComposite: one match_with_intelligent_insights call *)

MaxProfileSkills == 1    \* most skills on a profile
MaxJobRequired == 2      \* most required skills extracted from a job
MaxJobPreferred == 1     \* most preferred skills extracted from a job
MaxProfileYears == 2     \* most years held or required

\* the sequences over a set, without repetition, up to a length
DistinctSeqsUpTo(S, n) ==
    {q \in SeqsUpTo(S, n) : \A i, j \in 1..Len(q) : q[i] = q[j] => i = j}

\* the skills of a profile: the analyzer lists a skill once
ProfileSkillLists == DistinctSeqsUpTo(ResumeVocab, MaxProfileSkills)

\* the levels of the profiles: an analyzer label, and the matrix levels
ProfileLevels == {"Senior", "junior", "mid", "senior"}

DisjointLists(a, b) == Range(a) \cap Range(b) = {}

\* what extract_job_requirements returns: de-duplicated skill lists, a
\* skill preferred only if it is not required (the elif of line 52), the
\* years, and the level
JobRequirements ==
    LET extracted ==
            {[required_skills |-> required, preferred_skills |-> preferred,
              experience_years |-> years, seniority_level |-> level] :
                required \in DistinctSeqsUpTo(JobVocab, MaxJobRequired),
                preferred \in DistinctSeqsUpTo(JobVocab, MaxJobPreferred),
                years \in 0..MaxProfileYears, level \in MatrixLevels}
    IN  {job_req \in extracted :
            DisjointLists(job_req.required_skills, job_req.preferred_skills)}

CallMatchWithIntelligentInsights ==
    /\ ~match_call.called
    /\ \E skills \in ProfileSkillLists, total_years \in 0..MaxProfileYears,
          level \in ProfileLevels, job_req \in JobRequirements :
           LET resume_profile == [skills |-> skills, total_years |-> total_years,
                                  seniority_level |-> level]
               exact == MatchWithIntelligentInsights(resume_profile, job_req, 0)
           IN  /\ \E overall_score \in RoundedOverall(exact.final_score) :
                      match_call' =
                          [called |-> TRUE, resume_profile |-> resume_profile,
                           result |-> [exact EXCEPT !.overall_score = overall_score]]
               /\ UNCHANGED <<single_vars, filter_vars, matcher_vars, fbm, gap_vars, skill_call, exp_call>>

NextComposite == CallMatchWithIntelligentInsights

InitComposite ==
    /\ emb = SkillEmbApart
    /\ cat_embs = CategoryAnchors
    /\ encode_calls = 0
    /\ fbm = NoCall
    /\ GapIdle
    /\ JobIdle
    /\ FilterIdle
    /\ SingletonBuilt

SpecComposite == InitComposite /\ [][NextComposite]_vars

-----------------------------------------------------------------------------
(* Properties of match_with_intelligent_insights, under SpecComposite *)

\* the sum of the weights the composite applies, in hundredths
AppliedWeightSum ==
    DictGet(MATCHING_WEIGHTS, AppliedWeights[1])
        + DictGet(MATCHING_WEIGHTS, AppliedWeights[2])

\* C8: the weights match_with_intelligent_insights applies to the
\* sub-scores sum to 1.0, so a match whose skill and experience sub-scores
\* are equal has that same value as its composite.
C8_AppliedWeightsSumToOne ==
    match_call.called =>
        /\ AppliedWeightSum = WeightUnit
        /\ match_call.result.skill_match.score
               = match_call.result.experience_match.score
             => match_call.result.final_score
                    = match_call.result.skill_match.score * WeightUnit

\* the quality tiers, lowest first
TierOrder ==
    <<"Weak Match", "Fair Match", "Good Match", "Strong Match", "Excellent Match">>

TierRank(quality) == CHOOSE i \in DOMAIN TierOrder : TierOrder[i] = quality

ScoreSteps == 20         \* steps of the score grids the properties compare with

\* the composite scores 0.00, 0.05, ..., 1.00
CompositeGrid == {k * (CompositeUnit \div ScoreSteps) : k \in 0..ScoreSteps}

\* C15: the tier is a monotone function of the composite: a composite no
\* higher than that of the call maps to a tier no higher, one no lower to
\* a tier no lower, and every composite in [0,1] maps to one of the five
\* tiers.
C15_TierMonotone ==
    match_call.called =>
        /\ match_call.result.match_quality \in Range(TierOrder)
        /\ \A a \in CompositeGrid :
               /\ MatchQuality(a)[1] \in Range(TierOrder)
               /\ a <= match_call.result.final_score
                    => TierRank(MatchQuality(a)[1])
                           <= TierRank(match_call.result.match_quality)
               /\ a >= match_call.result.final_score
                    => TierRank(MatchQuality(a)[1])
                           >= TierRank(match_call.result.match_quality)

\* a call whose composite reaches the strong threshold
C15_Witness ==
    /\ match_call.called
    /\ match_call.result.match_quality = "Strong Match"
    /\ match_call.result.final_score >= Threshold("strong")

\* the sub-scores 0.00, 0.05, ..., 1.00, in thousandths
SubScoreGrid == {k * (1000 \div ScoreSteps) : k \in 0..ScoreSteps}

\* C16: composite monotonicity.  With the other sub-score held at its value
\* in the call, a lower skill sub-score or a lower experience sub-score
\* gives a composite, and a rounded overall score, no higher than the
\* call's, and a higher one gives ones no lower.
C16_CompositeMonotone ==
    match_call.called =>
        LET skill == match_call.result.skill_match.score
            exp == match_call.result.experience_match.score
            final == match_call.result.final_score
            overall == match_call.result.overall_score
            Below(other) == /\ other <= final
                            /\ other < final =>
                                   \A o \in RoundedOverall(other) : o <= overall
            Above(other) == /\ other >= final
                            /\ other > final =>
                                   \A o \in RoundedOverall(other) : o >= overall
        IN  \A x \in SubScoreGrid :
                /\ x <= skill => Below(FinalScore(x, exp))
                /\ x >= skill => Above(FinalScore(x, exp))
                /\ x <= exp => Below(FinalScore(skill, x))
                /\ x >= exp => Above(FinalScore(skill, x))

\* a call with both sub-scores strictly inside (0,1), the skill one lower
C16_Witness ==
    /\ match_call.called
    /\ match_call.result.skill_match.score > 0
    /\ match_call.result.skill_match.score
           < match_call.result.experience_match.score
    /\ match_call.result.experience_match.score < 1000

\* C17: the skill sub-score, the experience sub-score and the overall
\* composite score of every match lie in [0,1].
C17_ScoresInUnitInterval ==
    match_call.called =>
        /\ match_call.result.skill_match.score \in 0..1000
        /\ match_call.result.experience_match.score \in 0..1000
        /\ match_call.result.final_score \in 0..CompositeUnit
        /\ match_call.result.overall_score \in 0..1000

\* a call with a perfect skill sub-score and a perfect experience sub-score
C17_Witness ==
    /\ match_call.called
    /\ match_call.result.skill_match.score = 1000
    /\ match_call.result.experience_match.score = 1000

MaxSeverityTotal == 5    \* longest requirement list the severity labels are compared over

\* the place of a gap severity label in the order None, Minor, Moderate,
\* Significant, Critical; 0 for anything else
SeverityRank(label) ==
    CASE label \in {"None", "None - Perfect match!"} -> 1
      [] label = "Minor - Easily addressable" -> 2
      [] label = "Moderate - Requires preparation" -> 3
      [] label = "Significant - Needs work" -> 4
      [] label = "Critical - May not be suitable" -> 5
      [] OTHER -> 0

\* the label _calculate_gap_severity gives m missing skills out of n
SeverityOfCounts(m, n) ==
    GapSeverity([i \in 1..m |-> <<"x">>], [i \in 1..n |-> <<"x">>])

\* C18: the gap severity label of a match depends on the missing-to-required
\* ratio alone, whatever the skills, the experience and the composite are;
\* every ratio from 0 to 1 has one of the five labels, and a ratio no
\* lower than another has a label no lower in the order None, Minor,
\* Moderate, Significant, Critical.
C18_SeverityMonotoneInRatio ==
    (match_call.called
        /\ match_call.result.job_requirements.required_skills # <<>>) =>
        LET m == Len(match_call.result.skill_match.missing_required)
            n == Len(match_call.result.job_requirements.required_skills)
            label == match_call.result.skill_match.gap_severity
        IN  /\ label = SeverityOfCounts(m, n)
            /\ SeverityRank(label) > 0
            /\ \A n2 \in 1..MaxSeverityTotal : \A m2 \in 0..n2 :
                   /\ SeverityRank(SeverityOfCounts(m2, n2)) > 0
                   /\ m2 * n <= m * n2
                        => SeverityRank(SeverityOfCounts(m2, n2)) <= SeverityRank(label)
                   /\ m2 * n >= m * n2
                        => SeverityRank(SeverityOfCounts(m2, n2)) >= SeverityRank(label)

\* a match that misses one of two required skills
C18_Witness ==
    /\ match_call.called
    /\ Len(match_call.result.job_requirements.required_skills) = 2
    /\ Len(match_call.result.skill_match.missing_required) = 1
    /\ match_call.result.skill_match.gap_severity = "Significant - Needs work"

-----------------------------------------------------------------------------
(* SemanticMatcher.__new__, run by concurrent threads: SpecSingleton *)

\* cls._instance.<attr> = value: the attribute lands on the object that
\* cls._instance names when the store executes
StoreAttr(attr) == attrs' = [attrs EXCEPT ![instance] = @ \cup {attr}]

\* line 32: if cls._instance is None
TestInstance(t) ==
    /\ tpc[t] = "idle"
    /\ tpc' = [tpc EXCEPT ![t] = IF instance = 0 THEN "alloc" ELSE "return"]
    /\ UNCHANGED <<instance, attrs, init_counts, returned,
                 matcher_vars, fbm, gap_vars, job_vars, filter_vars>>

\* line 33: cls._instance = super().__new__(cls); thread t's object is t
AllocInstance(t) ==
    /\ tpc[t] = "alloc"
    /\ instance' = t
    /\ tpc' = [tpc EXCEPT ![t] = "load"]
    /\ UNCHANGED <<attrs, init_counts, returned,
                 matcher_vars, fbm, gap_vars, job_vars, filter_vars>>

\* line 35: cls._instance.model = SentenceTransformer(...), the load
\* succeeding
LoadModel(t) ==
    /\ tpc[t] = "load"
    /\ init_counts' = [init_counts EXCEPT !.loads = @ + 1]
    /\ StoreAttr("model")
    /\ tpc' = [tpc EXCEPT ![t] = "skill_anchors"]
    /\ UNCHANGED <<instance, returned,
                 matcher_vars, fbm, gap_vars, job_vars, filter_vars>>

\* line 35: SentenceTransformer(...) raises; the exception leaves __new__
LoadModelFails(t) ==
    /\ tpc[t] = "load"
    /\ tpc' = [tpc EXCEPT ![t] = "load_error"]
    /\ UNCHANGED <<instance, attrs, init_counts, returned,
                 matcher_vars, fbm, gap_vars, job_vars, filter_vars>>

\* lines 41-43: cls._instance.skill_anchor_embs = cls._instance.model.encode(...);
\* reading .model of an object that has none raises AttributeError
EncodeSkillAnchors(t) ==
    /\ tpc[t] = "skill_anchors"
    /\ IF "model" \in attrs[instance]
         THEN /\ init_counts' = [init_counts EXCEPT !.skill_anchor_encodes = @ + 1]
              /\ StoreAttr("skill_anchor_embs")
              /\ tpc' = [tpc EXCEPT ![t] = "cat_keys"]
         ELSE /\ tpc' = [tpc EXCEPT ![t] = "attribute_error"]
              /\ UNCHANGED <<attrs, init_counts>>
    /\ UNCHANGED <<instance, returned,
                 matcher_vars, fbm, gap_vars, job_vars, filter_vars>>

\* line 46: cls._instance.cat_keys = list(...)
StoreCatKeys(t) ==
    /\ tpc[t] = "cat_keys"
    /\ StoreAttr("cat_keys")
    /\ tpc' = [tpc EXCEPT ![t] = "cat_embs"]
    /\ UNCHANGED <<instance, init_counts, returned,
                 matcher_vars, fbm, gap_vars, job_vars, filter_vars>>

\* lines 47-49: cls._instance.cat_embs = cls._instance.model.encode(...)
EncodeCategoryAnchors(t) ==
    /\ tpc[t] = "cat_embs"
    /\ IF "model" \in attrs[instance]
         THEN /\ init_counts' = [init_counts EXCEPT !.cat_encodes = @ + 1]
              /\ StoreAttr("cat_embs")
              /\ tpc' = [tpc EXCEPT ![t] = "return"]
         ELSE /\ tpc' = [tpc EXCEPT ![t] = "attribute_error"]
              /\ UNCHANGED <<attrs, init_counts>>
    /\ UNCHANGED <<instance, returned,
                 matcher_vars, fbm, gap_vars, job_vars, filter_vars>>

\* line 51: return cls._instance; the attributes the object has at that
\* moment are what the caller can use
ReturnInstance(t) ==
    /\ tpc[t] = "return"
    /\ returned' = [returned EXCEPT ![t] = [obj |-> instance, attrs |-> attrs[instance]]]
    /\ tpc' = [tpc EXCEPT ![t] = "done"]
    /\ UNCHANGED <<instance, attrs, init_counts,
                 matcher_vars, fbm, gap_vars, job_vars, filter_vars>>

InitSingleton ==
    /\ emb = SkillEmbApart
    /\ cat_embs = CategoryAnchors
    /\ encode_calls = 0
    /\ fbm = NoCall
    /\ GapIdle
    /\ JobIdle
    /\ FilterIdle
    /\ instance = 0
    /\ attrs = [o \in Threads |-> {}]
    /\ tpc = [t \in Threads |-> "idle"]
    /\ init_counts = [loads |-> 0, skill_anchor_encodes |-> 0, cat_encodes |-> 0]
    /\ returned = [t \in Threads |-> NoReturn]

NextSingleton ==
    \/ \E t \in Threads : TestInstance(t)
    \/ \E t \in Threads : AllocInstance(t)
    \/ \E t \in Threads : LoadModel(t)
    \/ \E t \in Threads : LoadModelFails(t)
    \/ \E t \in Threads : EncodeSkillAnchors(t)
    \/ \E t \in Threads : StoreCatKeys(t)
    \/ \E t \in Threads : EncodeCategoryAnchors(t)
    \/ \E t \in Threads : ReturnInstance(t)

SpecSingleton == InitSingleton /\ [][NextSingleton]_vars

-----------------------------------------------------------------------------
(* Properties of SemanticMatcher.__new__, under SpecSingleton *)

LoadFailed == \E t \in Threads : tpc[t] = "load_error"

HasReturned(t) == tpc[t] = "done"

\* C10: under any interleaving of concurrent SemanticMatcher()
\* constructions in which the model loads, the model is loaded and the
\* anchors are embedded at most once, all callers receive the same
\* instance, and no caller receives an instance whose model or anchor
\* embeddings are not yet set.
C10_SingletonInitialisedOnce ==
    ~LoadFailed =>
        /\ init_counts.loads <= 1
        /\ init_counts.skill_anchor_encodes <= 1
        /\ init_counts.cat_encodes <= 1
        /\ \A t, u \in Threads :
               HasReturned(t) /\ HasReturned(u) => returned[t].obj = returned[u].obj
        /\ \A t \in Threads :
               HasReturned(t) => returned[t].attrs = InstanceAttrs

\* C11: a failure to load the model is a startup error only: a
\* SemanticMatcher() call that begins after the load has failed never
\* goes on to return an instance that lacks the model its per-call
\* operations need.
C11_LoadFailureIsStartupError ==
    [][\A t \in Threads :
           (LoadFailed /\ tpc[t] = "idle" /\ tpc'[t] = "return")
               => "model" \in attrs[instance]]_vars

-----------------------------------------------------------------------------
(* SemanticMatcher.batch_filter_skills *)

\* the default threshold of batch_filter_skills, 0.35
DefaultFilterThreshold == Pct(35)
\* the threshold extract_skills_dynamically passes, 0.40
ExtractFilterThreshold == Pct(40)

\* util.pytorch_cos_sim(candidate_embs, skill_anchor_embs): one row per
\* candidate, one column per anchor
AnchorScores(e, anchors, candidates) ==
    [i \in 1..Len(candidates) |->
        [j \in 1..Len(anchors) |-> CosSim(Encode(e, candidates[i]), anchors[j])]]

\* the largest value of a non-empty row
RowMax(row) == row[ArgMax(row)]

\* a plausible slip: torch.max without dim=1, one maximum for the whole
\* batch
BatchFilterSkillsWholeBatch(e, anchors, candidates, threshold) ==
    IF candidates = <<>> THEN <<>>
    ELSE LET cosine_scores == AnchorScores(e, anchors, candidates)
             row_max == [i \in 1..Len(candidates) |-> RowMax(cosine_scores[i])]
         IN  IF RowMax(row_max) > threshold THEN candidates ELSE <<>>

\* the indices of a list kept by a test, as the list of the kept items in
\* order: valid_skills after the loop of lines 115-118
RECURSIVE KeepWhere(_, _)
KeepWhere(list, keep) ==
    IF list = <<>> THEN <<>>
    ELSE KeepWhere(Front(list), keep)
             \o (IF keep[Len(list)] THEN <<Last(list)>> ELSE <<>>)

\* batch_filter_skills: the candidates whose row maximum exceeds the
\* threshold, in input order
BatchFilterSkills(e, anchors, candidates, threshold) ==
    IF candidates = <<>> THEN <<>>
    ELSE LET cosine_scores == AnchorScores(e, anchors, candidates)
             max_scores == [i \in 1..Len(candidates) |-> RowMax(cosine_scores[i])]
         IN  KeepWhere(candidates,
                       [i \in 1..Len(candidates) |-> max_scores[i] > threshold])

\* model.encode calls of one batch_filter_skills call
BatchFilterEncodes(candidates) == IF candidates = <<>> THEN 0 ELSE 1

-----------------------------------------------------------------------------
(* UltraIntelligentResumeAnalyzer.extract_skills_dynamically, steps 1 to 3 *)

Digits == {"0","1","2","3","4","5","6","7","8","9"}

\* str.isdigit(): non-empty and all digits
IsDigit(str) == str # <<>> /\ \A i \in 1..Len(str) : str[i] \in Digits

\* str.strip(chars): leading and trailing characters of chars removed
RECURSIVE StripChars(_, _)
StripChars(str, chars) ==
    IF str = <<>> THEN <<>>
    ELSE IF Head(str) \in chars THEN StripChars(Tail(str), chars)
    ELSE IF Last(str) \in chars THEN StripChars(Front(str), chars)
    ELSE str

\* c.strip().strip(',').strip('.')
CleanCandidate(c) == StripChars(StripChars(StripChars(c, {" "}), {","}), {"."})

\* a plausible slip: only the empty string counts as too short
IsCandidateNonEmpty(c_clean, stopwords) ==
    Len(c_clean) > 0 /\ c_clean \notin stopwords /\ ~IsDigit(c_clean)

\* line 66: the test a cleaned candidate must pass
IsCandidate(c_clean, stopwords) ==
    Len(c_clean) > 1 /\ c_clean \notin stopwords /\ ~IsDigit(c_clean)

CandidateCap == 200      \* candidate_list keeps at most this many candidates

\* the lists list(set(clean_candidates))[:200] can be: the kept candidates,
\* each once, in any order, cut at the cap
CandidateLists(raw_candidates, stopwords) ==
    LET clean == {CleanCandidate(c) : c \in raw_candidates}
        kept == {c \in clean : IsCandidate(c, stopwords)}
    IN  {Take(l, CandidateCap) :
            l \in {q \in [1..Cardinality(kept) -> kept] : Range(q) = kept}}

-----------------------------------------------------------------------------
(* Specification SpecFilter: one batch_filter_skills call *)

MaxCandidates == 2       \* longest candidate list handed to batch_filter_skills

RLang == <<"R">>
Team == <<"T","e","a","m">>

\* candidate strings: a skill, a one-character skill and a common word
FilterVocab == {Python, RLang, Team}

FilterThresholds == {DefaultFilterThreshold, ExtractFilterThreshold}

InitFilter ==
    /\ emb \in [FilterVocab -> EmbVectors]
    /\ cat_embs = CategoryAnchors
    /\ encode_calls = 0
    /\ fbm = NoCall
    /\ GapIdle
    /\ JobIdle
    /\ SingletonBuilt
    /\ skill_anchor_embs \in [1..NumAnchors -> AnchorVectors]
    /\ filter_call = NoCall
    /\ classify_call = NoCall
    /\ sim_call = NoCall

CallBatchFilterSkills ==
    /\ ~filter_call.called
    /\ \E candidates \in SeqsUpTo(FilterVocab, MaxCandidates),
          threshold \in FilterThresholds :
           /\ filter_call' =
                  [called |-> TRUE, caller |-> "direct",
                   candidates |-> candidates, threshold |-> threshold,
                   result |-> BatchFilterSkills(emb, skill_anchor_embs,
                                                candidates, threshold)]
           /\ encode_calls' = encode_calls + BatchFilterEncodes(candidates)
           /\ UNCHANGED <<single_vars, emb, cat_embs, fbm, gap_vars, job_vars,
                          skill_anchor_embs, classify_call, sim_call>>

\* the stopwords of extract_skills_dynamically among the candidate strings
Stopwords == {Team}

\* extract_skills_dynamically up to the categorisation: the candidates the
\* pattern found are cleaned and tested, validated in one batch at 0.40
\* and categorised (the proficiency attached to each skill afterwards
\* depends on the text around it and is left out)
CallExtractSkills ==
    /\ ~filter_call.called
    /\ \E raw_candidates \in SUBSET FilterVocab :
         \E candidate_list \in CandidateLists(raw_candidates, Stopwords) :
           LET valid_skill_names ==
                   BatchFilterSkills(emb, skill_anchor_embs, candidate_list,
                                     ExtractFilterThreshold)
           IN  /\ filter_call' =
                      [called |-> TRUE, caller |-> "extract_skills_dynamically",
                       raw_candidates |-> raw_candidates,
                       candidates |-> candidate_list,
                       threshold |-> ExtractFilterThreshold,
                       result |-> valid_skill_names,
                       categorized_skills |->
                           BatchClassifyCategories(emb, cat_embs, valid_skill_names)]
               /\ encode_calls' = encode_calls + BatchFilterEncodes(candidate_list)
                                      + BatchClassifyEncodes(valid_skill_names)
               /\ UNCHANGED <<single_vars, emb, cat_embs, fbm, gap_vars, job_vars,
                              skill_anchor_embs, classify_call, sim_call>>

NextFilter == CallBatchFilterSkills \/ CallExtractSkills

SpecFilter == InitFilter /\ [][NextFilter]_vars

-----------------------------------------------------------------------------
(* Properties of batch_filter_skills, under SpecFilter *)

\* some technical-skill anchor is more similar to the candidate than thr
IsTechnicalSkill(candidate, thr) ==
    \E j \in 1..Len(skill_anchor_embs) :
        CosSim(emb[candidate], skill_anchor_embs[j]) > thr

\* the items of a list that pass a test, in order
RECURSIVE Those(_, _, _)
Those(list, Test(_, _), thr) ==
    IF list = <<>> THEN <<>>
    ELSE (IF Test(Head(list), thr) THEN <<Head(list)>> ELSE <<>>)
             \o Those(Tail(list), Test, thr)

\* C19: batch/single agreement.  batch_filter_skills returns exactly the
\* candidates, in input order, whose greatest similarity to a technical
\* skill anchor strictly exceeds the threshold, and each candidate fares in
\* the batch as it does in a batch of its own.
C19_BatchSingleAgreement ==
    filter_call.called =>
        /\ filter_call.result
               = Those(filter_call.candidates, IsTechnicalSkill, filter_call.threshold)
        /\ \A i \in 1..Len(filter_call.candidates) :
               LET c == filter_call.candidates[i]
               IN  (c \in Range(filter_call.result))
                       <=> BatchFilterSkills(emb, skill_anchor_embs, <<c>>,
                                             filter_call.threshold) = <<c>>

\* a batch of two distinct candidates of which only the second is kept,
\* by its similarity to the second anchor alone
C19_Witness ==
    /\ filter_call.called
    /\ Len(filter_call.candidates) = 2
    /\ filter_call.result = <<filter_call.candidates[2]>>
    /\ filter_call.candidates[1] # filter_call.candidates[2]
    /\ CosSim(emb[filter_call.candidates[2]], skill_anchor_embs[1])
           <= filter_call.threshold

\* C20: batch_filter_skills returns no string shorter than 2 characters,
\* whatever its similarity to the anchors and whoever calls it.
C20_ShortInputsRejected ==
    filter_call.called =>
        \A i \in 1..Len(filter_call.result) : Len(filter_call.result[i]) >= 2

\* C20, as the code has it: extract_skills_dynamically drops every
\* candidate shorter than 2 characters before the batch is embedded, so
\* none is handed to batch_filter_skills or returned by it there,
\* whatever its similarity to the anchors; batch_filter_skills itself
\* tests no length.
C20_ShortInputsRejectedByExtraction ==
    (filter_call.called /\ filter_call.caller = "extract_skills_dynamically") =>
        /\ \A i \in 1..Len(filter_call.candidates) :
               Len(filter_call.candidates[i]) >= 2
        /\ \A i \in 1..Len(filter_call.result) : Len(filter_call.result[i]) >= 2
        /\ \A c \in filter_call.raw_candidates :
               Len(c) < 2 => c \notin Range(filter_call.result)

\* an extraction whose candidates held a one-character string that is
\* similar enough to an anchor, next to a skill that was kept
C20_Witness ==
    /\ filter_call.called
    /\ filter_call.caller = "extract_skills_dynamically"
    /\ RLang \in filter_call.raw_candidates
    /\ IsTechnicalSkill(RLang, filter_call.threshold)
    /\ filter_call.result = <<Python>>

-----------------------------------------------------------------------------
\* The analyze-then-match pipeline: the level the resume analyzer reports and
\* the composite the tiers are read from

\* _calculate_experience_robust (resume_analyzer.py 196-207): the seniority
\* label of a profile with total_years years
SeniorityLevel(total_years) ==
    IF total_years >= 10 THEN "Staff/Principal"
    ELSE IF total_years >= 7 THEN "Senior"
    ELSE IF total_years >= 5 THEN "Mid-Senior"
    ELSE IF total_years >= 2 THEN "Mid-Level"
    ELSE IF total_years >= 1 THEN "Junior"
    ELSE "Entry-Level"

\* C29: every quality tier is attainable: with perfect skill and experience
\* sub-scores match_with_intelligent_insights reports Excellent Match, i.e.
\* the composite of perfect sub-scores is at least the excellent threshold.
C29_ExcellentAttainable ==
    (/\ match_call.called
     /\ match_call.result.skill_match.score = 1000
     /\ match_call.result.experience_match.score = 1000) =>
        /\ match_call.result.final_score >= Threshold("excellent")
        /\ match_call.result.match_quality = "Excellent Match"

\* C30: every seniority label the resume analyzer produces is a candidate
\* level of the seniority matrix, so when the candidate level is the label
\* the analyzer derives from the candidate's years, the seniority component
\* is a matrix entry and never the (0.5, Uncertain) default.
C30_AnalyzerLevelsInMatrix ==
    (/\ exp_call.called
     /\ exp_call.candidate_level = SeniorityLevel(exp_call.result.candidate_years)) =>
        /\ exp_call.candidate_level \in MatrixLevels
        /\ exp_call.result.seniority_analysis # "Uncertain"

-----------------------------------------------------------------------------
(* Threshold validation, under Spec *)

\* a threshold that is negative or greater than 1
Misconfigured(threshold) == threshold < 0 \/ threshold > ScoreScale

\* C24: a misconfigured threshold (negative or greater than 1) passed to
\* find_best_match is rejected before any similarity is computed: the call
\* encodes nothing and returns no match obtained by comparing against it.
C24_MisconfiguredThresholdRejected ==
    (fbm.called /\ Misconfigured(fbm.threshold)) =>
        /\ fbm.encodes = 0
        /\ fbm.result[1] = None

-----------------------------------------------------------------------------
(* Degenerate input, tiers and the clustering pass, under SpecGap *)

\* an analyze_gaps call is under way or has returned
GapCalled == gap_pc \in {"clustering", "done"}

\* C25: given an empty match_results list, or matches none of which has a
\* missing required skill, analyze_gaps returns a report whose critical and
\* medium gap lists are empty, with no iteration of the clustering loop (no
\* find_best_match call) and no encode call.
C25_DegenerateInputNoGaps ==
    (GapCalled /\ Flatten(match_results) = <<>>) =>
        /\ encode_calls = 0
        /\ canonical_map = <<>>
        /\ clustered_gaps = <<>>
        /\ gap_pc = "done" =>
              /\ gap_report.called
              /\ gap_report.critical_gaps = <<>>
              /\ gap_report.medium_priority_gaps = <<>>

C25_Witness ==
    /\ gap_pc = "done"
    /\ match_results # <<>>
    /\ Flatten(match_results) = <<>>
    /\ gap_report.critical_gaps = <<>>

\* the entry of detailed_analysis for a cluster label
GapEntry(skill) ==
    LET da == gap_report.detailed_analysis
    IN  da[CHOOSE i \in 1..Len(da) : da[i].skill = skill]

NoDuplicates(list) == \A i, j \in 1..Len(list) : list[i] = list[j] => i = j

SeverityNonIncreasing(list) ==
    \A i, j \in 1..Len(list) :
        i < j => GapEntry(list[i]).severity_score >= GapEntry(list[j]).severity_score

\* C26: every cluster is placed in exactly one tier: Critical if its market
\* penetration exceeds 40 percent or its severity score (frequency x domain
\* weight) exceeds 2.5; otherwise High if its frequency > 1; otherwise low.
\* The three tier lists are pairwise disjoint, together contain every
\* cluster label, and each is in non-increasing severity order.
C26_TiersPartitionClusters ==
    (gap_pc = "done" /\ match_results # <<>>) =>
        LET critical == gap_report.critical_gaps
            medium == gap_report.medium_priority_gaps
            low == gap_report.low_priority_gaps
            labels == Range(DictKeys(clustered_gaps))
        IN  /\ \A skill \in labels :
                  LET g == GapEntry(skill)
                      is_critical == \/ g.market_penetration > CriticalPenetration
                                     \/ g.severity_score > CriticalSeverity
                  IN  /\ g.frequency = DictGet(clustered_gaps, skill)
                      /\ g.severity_score = g.frequency * DomainWeight(g.category) * 10
                      /\ skill \in Range(critical) <=> is_critical
                      /\ skill \in Range(medium) <=> (~is_critical /\ g.frequency > 1)
                      /\ skill \in Range(low) <=> (~is_critical /\ g.frequency <= 1)
            /\ Range(critical) \cap Range(medium) = {}
            /\ Range(critical) \cap Range(low) = {}
            /\ Range(medium) \cap Range(low) = {}
            /\ Range(critical) \cup Range(medium) \cup Range(low) = labels
            /\ NoDuplicates(critical) /\ NoDuplicates(medium) /\ NoDuplicates(low)
            /\ SeverityNonIncreasing(critical)
            /\ SeverityNonIncreasing(medium)
            /\ SeverityNonIncreasing(low)

C26_Witness ==
    /\ gap_pc = "done"
    /\ Len(gap_report.critical_gaps) >= 1
    /\ Len(gap_report.medium_priority_gaps) >= 1
    /\ Len(gap_report.low_priority_gaps) >= 1

\* raw_counts[skill]
RawCount(skill) == DictGet(CounterOf(Flatten(match_results)), skill)

\* C27: raw mentions are folded in non-increasing raw-frequency order, so
\* the canonical label of every cluster is its first-processed member and
\* no mention merged into a cluster has a raw frequency greater than that
\* of the cluster's canonical label.
C27_FoldedByDescendingFrequency ==
    GapCalled =>
        /\ \A i, j \in 1..Len(pending) : i < j => pending[i][2] >= pending[j][2]
        /\ \A i \in 1..Len(canonical_map) : \A j \in 1..Len(pending) :
               RawCount(canonical_map[i][1]) >= pending[j][2]
        /\ \A i \in 1..Len(canonical_map) :
               LET raw_skill == canonical_map[i][1]
                   label == canonical_map[i][2]
                   first == CHOOSE k \in 1..i :
                                /\ canonical_map[k][2] = label
                                /\ \A m \in 1..(k - 1) : canonical_map[m][2] # label
               IN  /\ canonical_map[first][1] = label
                   /\ RawCount(raw_skill) <= RawCount(label)

C27_Witness ==
    /\ gap_pc = "done"
    /\ \E i \in 1..Len(canonical_map) :
           /\ canonical_map[i][1] # canonical_map[i][2]
           /\ RawCount(canonical_map[i][1]) < RawCount(canonical_map[i][2])

\* C28: at every step of the clustering pass each non-canonical mention has
\* similarity >= 0.85 to the canonical label of the cluster it was merged
\* into, any two distinct canonical labels have similarity < 0.85 to each
\* other, and two terms whose similarity is below 0.85 are never label and
\* member of one cluster.
C28_ClustersRespectThreshold ==
    GapCalled =>
        /\ \A i \in 1..Len(canonical_map) :
               LET raw_skill == canonical_map[i][1]
                   label == canonical_map[i][2]
               IN  /\ DictHas(clustered_gaps, label)
                   /\ raw_skill # label => GapSim(raw_skill, label) >= ClusterThreshold
        /\ \A a, b \in Range(DictKeys(clustered_gaps)) :
               a # b => GapSim(a, b) < ClusterThreshold
        /\ \A a, b \in GapVocab :
               (a # b /\ GapSim(a, b) < ClusterThreshold) =>
                   ~(DictHas(canonical_map, a) /\ DictGet(canonical_map, a) = b)

C28_Witness ==
    /\ gap_pc = "clustering"
    /\ Len(clustered_gaps) >= 2
    /\ \E i \in 1..Len(canonical_map) : canonical_map[i][1] # canonical_map[i][2]
    /\ \E a, b \in GapVocab : a # b /\ GapSim(a, b) < ClusterThreshold

-----------------------------------------------------------------------------
(* SemanticMatcher.get_similarity and SemanticMatcher.classify_category *)

\* a plausible slip: the dot product is scaled by the first norm only
GetSimilarityProjected(e, text1, text2) ==
    LET emb1 == Encode(e, text1)
        emb2 == Encode(e, text2)
    IN  (Dot(emb1, emb2) * ScoreScale) \div (Norm(emb1) * Norm(emb1))

\* get_similarity(text1, text2), in 1/ScoreScale
GetSimilarity(e, text1, text2) ==
    LET emb1 == Encode(e, text1)
        emb2 == Encode(e, text2)
    IN  CosSim(emb1, emb2)

\* the index of the last maximal value of a non-empty row
ArgMaxLast(scores) ==
    CHOOSE i \in 1..Len(scores) :
        /\ \A j \in 1..Len(scores) : scores[j] <= scores[i]
        /\ \A j \in (i + 1)..Len(scores) : scores[j] < scores[i]

\* a plausible slip: of equal maxima the last category wins
ClassifyCategoryLastMax(e, cembs, skill) ==
    LET skill_emb == Encode(e, skill)
        scores == [j \in 1..Len(cembs) |-> CosSim(skill_emb, cembs[j])]
    IN  CatKeys[ArgMaxLast(scores)]

\* classify_category(skill)
ClassifyCategory(e, cembs, skill) ==
    LET skill_emb == Encode(e, skill)
        scores == [j \in 1..Len(cembs) |-> CosSim(skill_emb, cembs[j])]
        best_idx == ArgMax(scores)
    IN  CatKeys[best_idx]

-----------------------------------------------------------------------------
(* Specification SpecClassify: one classify_category, batch_classify_categories
   or get_similarity call *)

MaxBatch == 2            \* longest skills list given to batch_classify_categories

React == <<"R","e","a","c","t">>

ClassifyVocab == {Python, React, Docker}

\* embeddings of the skills: the directions of EmbVectors, or a short vector
ClassifyVectors == EmbVectors \cup {VecH}

\* category anchors placed so that VecA is equally near the second and the
\* third (0.80) and farther from the others
TiedAnchors == <<VecC, VecD, VecF, VecE, VecG>>

InitClassify ==
    /\ emb \in [ClassifyVocab -> ClassifyVectors]
    /\ cat_embs \in {CategoryAnchors, TiedAnchors}
    /\ encode_calls = 0
    /\ fbm = NoCall
    /\ GapIdle
    /\ JobIdle
    /\ FilterIdle
    /\ SingletonBuilt

NoMatcherCall == ~classify_call.called /\ ~sim_call.called

ClassifyUnchanged == <<single_vars, skill_anchor_embs, filter_call, emb, cat_embs, fbm, gap_vars, job_vars>>

\* lines 63-77
CallClassifyCategory ==
    /\ NoMatcherCall
    /\ \E skill \in ClassifyVocab :
           /\ classify_call' = [called |-> TRUE, method |-> "classify_category",
                                skills |-> <<skill>>,
                                result |-> ClassifyCategory(emb, cat_embs, skill)]
           /\ encode_calls' = encode_calls + 1
           /\ UNCHANGED <<ClassifyUnchanged, sim_call>>

\* lines 123-140
CallBatchClassifyCategories ==
    /\ NoMatcherCall
    /\ \E skills \in SeqsUpTo(ClassifyVocab, MaxBatch) :
           /\ classify_call' = [called |-> TRUE, method |-> "batch_classify_categories",
                                skills |-> skills,
                                result |-> BatchClassifyCategories(emb, cat_embs, skills)]
           /\ encode_calls' = encode_calls + BatchClassifyEncodes(skills)
           /\ UNCHANGED <<ClassifyUnchanged, sim_call>>

\* lines 56-60
CallGetSimilarity ==
    /\ NoMatcherCall
    /\ \E text1 \in ClassifyVocab, text2 \in ClassifyVocab :
           /\ sim_call' = [called |-> TRUE, text1 |-> text1, text2 |-> text2,
                           result |-> GetSimilarity(emb, text1, text2)]
           /\ encode_calls' = encode_calls + 2
           /\ UNCHANGED <<ClassifyUnchanged, classify_call>>

NextClassify == CallClassifyCategory \/ CallBatchClassifyCategories \/ CallGetSimilarity

SpecClassify == InitClassify /\ [][NextClassify]_vars

-----------------------------------------------------------------------------
(* Properties of the classifiers and of get_similarity, under SpecClassify *)

BatchCalled == classify_call.called /\ classify_call.method = "batch_classify_categories"

SingleCalled == classify_call.called /\ classify_call.method = "classify_category"

\* how often x occurs in a list
Occurrences(list, x) == Cardinality({i \in 1..Len(list) : list[i] = x})

\* the categories of a returned dict that list a skill
CategoriesOf(categorized, skill) ==
    {categorized[j][1] : j \in {k \in 1..Len(categorized) : skill \in Range(categorized[k][2])}}

\* C21: batch_classify_categories assigns each input skill to exactly one of
\* the fixed categories: every input occurrence appears in exactly one
\* category list, no skill that was not in the input appears, and the total
\* number of classified entries equals the number of inputs.
C21_BatchClassifyPartitions ==
    BatchCalled =>
        LET skills == classify_call.skills
            categorized == classify_call.result
            lists == [j \in 1..Len(categorized) |-> categorized[j][2]]
        IN  /\ Range(DictKeys(categorized)) \subseteq Range(CatKeys)
            /\ NoDuplicates(DictKeys(categorized))
            /\ \A skill \in Range(skills) :
                   /\ Cardinality(CategoriesOf(categorized, skill)) = 1
                   /\ Occurrences(Flatten(lists), skill) = Occurrences(skills, skill)
            /\ Range(Flatten(lists)) \subseteq Range(skills)
            /\ Len(Flatten(lists)) = Len(skills)

C21_Witness ==
    /\ BatchCalled
    /\ Len(classify_call.skills) = 2
    /\ classify_call.skills[1] = classify_call.skills[2]

\* the category indices at which a skill's similarity is maximal
MaximalAnchors(skill) ==
    {j \in 1..Len(cat_embs) :
        \A k \in 1..Len(cat_embs) :
            CosSim(emb[skill], cat_embs[k]) <= CosSim(emb[skill], cat_embs[j])}

\* the category declared first among those of maximal similarity
FirstDeclared(skill) ==
    CatKeys[CHOOSE j \in MaximalAnchors(skill) : \A k \in MaximalAnchors(skill) : j <= k]

\* C22: when a skill's similarity is equal for two or more category anchors
\* at the maximum, classify_category and batch_classify_categories both
\* return the category declared first, so the single-item and the batched
\* classifier agree on every skill.
C22_ClassifiersAgreeOnTies ==
    /\ SingleCalled =>
          LET skill == classify_call.skills[1]
          IN  /\ classify_call.result = FirstDeclared(skill)
              /\ CategoriesOf(BatchClassifyCategories(emb, cat_embs, <<skill>>), skill)
                     = {classify_call.result}
    /\ BatchCalled =>
          \A skill \in Range(classify_call.skills) :
              /\ CategoriesOf(classify_call.result, skill) = {FirstDeclared(skill)}
              /\ ClassifyCategory(emb, cat_embs, skill) = FirstDeclared(skill)

C22_Witness ==
    /\ SingleCalled
    /\ Cardinality(MaximalAnchors(classify_call.skills[1])) >= 2
    /\ classify_call.result = "Data & AI"

\* C23: get_similarity is symmetric: get_similarity(a, b) equals
\* get_similarity(b, a) for all strings a and b.
C23_SimilaritySymmetric ==
    sim_call.called =>
        sim_call.result = GetSimilarity(emb, sim_call.text2, sim_call.text1)

C23_Witness ==
    /\ sim_call.called
    /\ sim_call.text1 # sim_call.text2
    /\ Norm(emb[sim_call.text1]) # Norm(emb[sim_call.text2])
    /\ sim_call.result > 0

=============================================================================
